---- MODULE Spec2Model ----
(***************************************************************************)
(* The batch resume-scoring pipeline of the ResumeScore page.  The          *)
(* repository holds three versions of the page component:                   *)
(*   "Select"  src/pages/ResumeScore.tsx      (job picked from the store)   *)
(*   "Parsed"  src/unnamed/part_000:1-852     (store job, or a job          *)
(*             description parsed beforehand by handleJdUpload)             *)
(*   "Minted"  src/unnamed/part_000:854-1670  (store job, or a job record   *)
(*             minted from an uploaded description inside startAnalysis)    *)
(* A behaviour fixes one component and interleaves the user's events, the   *)
(* external store and the resumptions of startAnalysis at its awaits.       *)
(***************************************************************************)
EXTENDS Integers, Sequences, FiniteSets, TLC

\* ------------------------------------------------------------------ bounds
MaxFiles == 2        \* files the user selects during one behaviour
MaxFaults == 1       \* calls that fail during one behaviour
MaxRuns == 2         \* invocations of startAnalysis during one behaviour
MaxMint == 2         \* job records minted from uploaded descriptions
MaxDeletes == 1      \* jobs another client deletes from the store
MaxEvents == 4       \* user events other than clicks on Score during one behaviour
MaxMessages == 6     \* messages of a chat

\* ------------------------------------------------------- program constants
THROTTLE_MS == 3000
HIGH_MATCH == 80

Components == {"Select", "Parsed", "Minted"}
JobIds == {"j1", "j2"}
MintIds == {"m1", "m2", "m3"}
MintId(n) == IF n = 0 THEN "m1" ELSE IF n = 1 THEN "m2" ELSE "m3"
AllJobIds == JobIds \cup MintIds
TempJdId == "temp-uploaded-jd"
RunIds == 1..MaxRuns

\* matchScore values the analysis capability answers with
Scores == {79, 80, 91}

VARIABLES
    component,      \* which version of the page is mounted
    jobs,           \* useState<Job[]>: the job list cached at mount
    selectedJobId,  \* useState<string>: "" when nothing is selected
    files,          \* useState<UploadFile[]>: the live upload queue
    isAnalyzing,    \* useState(false)
    errorMsg,       \* useState<string | null>
    jobSource,      \* jobSource / jdSource: "database" ('select') or "upload"
    parsedJd,       \* Parsed: parsedJd !== null
    isParsingJd,    \* Parsed: handleJdUpload is awaiting the extraction
    jdFile,         \* Minted: jdFile !== null
    dbJobs,         \* the job store
    dbCandidates,   \* the candidate store, in insertion order
    runs,           \* the live invocations of startAnalysis
    nextFile,       \* files selected so far
    minted,         \* job ids minted so far
    faults,         \* failed calls so far
    deletes,        \* jobs deleted by other clients so far
    events,         \* user events so far
    currentFile,    \* record construction: the document of the item at hand
    resumeData,     \* record construction: what analyzeResume answered
    base64Data,     \* record construction: what fileToBase64 answered
    newCandidate,   \* record construction: the record handed to insertOne
    messages,       \* chat: useState<Message[]>, the role of each message
    context,        \* chat: useState<ChatContext>
    conversationHistory  \* chat: the history handed to model.startChat

pageVars == <<component, jobs, selectedJobId, files, isAnalyzing, errorMsg, jobSource,
              parsedJd, isParsingJd, jdFile, dbJobs, dbCandidates, runs, nextFile, minted,
              faults, deletes, events>>
recordVars == <<currentFile, resumeData, base64Data, newCandidate>>
chatVars == <<messages, context, conversationHistory>>
vars == <<pageVars, recordVars, chatVars>>

\* ------------------------------------------------------------------ values
NoMsg == [kind |-> "none", file |-> 0]
Msg(k, f) == [kind |-> k, file |-> f]

NoData == [matchScore |-> -1]
NoJob == [present |-> FALSE, applicantsCount |-> 0, matchesCount |-> 0]
NoCurrentJob == [id |-> "", applicantsCount |-> 0, matchesCount |-> 0]

\* handleFileSelect's item for one selected file
NewUploadFile(id) == [id |-> id, status |-> "READY", progress |-> 0, result |-> NoData]

\* one invocation of startAnalysis: where it is suspended (pc), what its closure
\* captured (files, sel, src), its locals (i, job, data, upd), and a record of what
\* it has done so far (ctx .. completed)
IdleRun == [pc |-> "idle", files |-> << >>, i |-> 0, sel |-> "", src |-> "database",
            job |-> NoCurrentJob, before |-> 0, data |-> NoData,
            upd |-> [applicantsCount |-> 0, matchesCount |-> 0],
            ctx |-> "none", end |-> "none",
            calls |-> 0, waited |-> 0, touched |-> 0, msgs |-> 0,
            candIns |-> 0, jobIns |-> 0, jobUpd |-> 0, completed |-> 0,
            given |-> ""]
DoneRun == [IdleRun EXCEPT !.pc = "done"]

\* ------------------------------------------------------------------- store
\* db.jobs.find(): the ids of the stored jobs
StoredJobs == {j \in AllJobIds : dbJobs[j].present}

\* (variant: the job is looked up in the list cached at mount)
FindJobCached(id) ==
    IF id \in jobs
    THEN [id |-> id, applicantsCount |-> dbJobs[id].applicantsCount,
          matchesCount |-> dbJobs[id].matchesCount]
    ELSE NoCurrentJob

\* allJobs.find(j => j.id === id)
FindJob(id) ==
    IF id \in StoredJobs
    THEN [id |-> id, applicantsCount |-> dbJobs[id].applicantsCount,
          matchesCount |-> dbJobs[id].matchesCount]
    ELSE NoCurrentJob

\* db.jobs.updateOne(id, partial): sets the given fields of a stored job
UpdateOne(db, id, partial) ==
    IF id \in DOMAIN db /\ db[id].present
    THEN [db EXCEPT ![id] = [present |-> TRUE,
                              applicantsCount |-> partial.applicantsCount,
                              matchesCount |-> partial.matchesCount]]
    ELSE db

\* ---------------------------------------------------------- queue updates
\* setFiles(prev => prev.map((f, idx) => idx === i ? upd(f) : f)), i 1-based
MarkReading(fs, i) ==
    [k \in DOMAIN fs |-> IF k = i THEN [fs[k] EXCEPT !.status = "READING", !.progress = 10] ELSE fs[k]]
MarkParsing(fs, i) ==
    [k \in DOMAIN fs |-> IF k = i THEN [fs[k] EXCEPT !.status = "PARSING", !.progress = 30] ELSE fs[k]]
MarkScored(fs, i) ==
    [k \in DOMAIN fs |-> IF k = i THEN [fs[k] EXCEPT !.progress = 80] ELSE fs[k]]
MarkCompleted(fs, i, data) ==
    [k \in DOMAIN fs |-> IF k = i
        THEN [fs[k] EXCEPT !.status = "COMPLETED", !.progress = 100, !.result = data] ELSE fs[k]]
MarkError(fs, i) ==
    [k \in DOMAIN fs |-> IF k = i THEN [fs[k] EXCEPT !.status = "ERROR", !.progress = 0] ELSE fs[k]]

\* ------------------------------------------------------------- the scheduler
\* if (currentFile.status === 'COMPLETED') continue;
Skips(f) == f.status = "COMPLETED"

\* (variant: the loop never waits between requests)
Unthrottled(i) == FALSE

\* (variant: the delay also precedes the first item)
ThrottledFromFirst(i) == i > 0

\* if (i > 0) await new Promise(r => setTimeout(r, 3000));   (i is 1-based here)
Throttled(i) == i > 1

\* the first index >= from that the loop does not skip, Len+1 when there is none
NextIndex(snap, from) ==
    IF \E j \in from..Len(snap) : ~Skips(snap[j])
    THEN CHOOSE j \in from..Len(snap) :
            ~Skips(snap[j]) /\ \A k \in from..(j-1) : Skips(snap[k])
    ELSE Len(snap) + 1

\* (variant: a score of exactly 80 counts as a high match)
HighMatchAtLeast(score) == score >= HIGH_MATCH

\* matchScore > 80
HighMatch(score) == score > HIGH_MATCH

\* const matchScore = Number(data.matchScore) || 0
MatchScore(data) == IF data.matchScore \in Nat THEN data.matchScore ELSE 0

\* (variant: the button stays enabled while a run is in progress)
ScoreDisabledIgnoresRun ==
    \/ Len(files) = 0
    \/ IF component = "Parsed"
       THEN \/ jobSource = "database" /\ (selectedJobId = "" \/ jobs = {})
            \/ jobSource = "upload" /\ ~parsedJd
       ELSE selectedJobId = "" \/ jobs = {}

\* the button's disabled attribute
ScoreDisabled ==
    \/ isAnalyzing
    \/ Len(files) = 0
    \/ IF component = "Parsed"
       THEN \/ jobSource = "database" /\ (selectedJobId = "" \/ jobs = {})
            \/ jobSource = "upload" /\ ~parsedJd
       ELSE selectedJobId = "" \/ jobs = {}

\* the checks at the head of startAnalysis; "" when they pass
Validation ==
    IF component = "Parsed"
    THEN IF jobSource = "database" /\ selectedJobId = "" THEN "select"
         ELSE IF jobSource = "upload" /\ ~parsedJd THEN "upload"
         ELSE IF Len(files) = 0 THEN "files" ELSE ""
    ELSE IF selectedJobId = "" \/ Len(files) = 0 THEN "select" ELSE ""

\* the closure's view of the queue: each item's file and the status it had
\* when startAnalysis was invoked
Snapshot(fs) == [k \in DOMAIN fs |-> [id |-> fs[k].id, status |-> fs[k].status]]

\* the closure of an invocation that returned is garbage: what was recorded of
\* it is dropped at the next step of a later invocation
Forget(rs) == [q \in DOMAIN rs |-> IF rs[q].pc = "done" THEN DoneRun ELSE rs[q]]

\* finally { setIsAnalyzing(false) }
Finish(r, run, fs, how) ==
    /\ runs' = [Forget(runs) EXCEPT ![r] = [run EXCEPT !.pc = "done", !.end = how]]
    /\ isAnalyzing' = FALSE
    /\ files' = fs

\* (variant: each call is given the job that is selected when it starts)
JobContextOfSelection(run) ==
    IF run.ctx = "parsed" THEN TempJdId ELSE selectedJobId

\* { title: currentJob.title, skills: currentJob.skills || [], description:
\* currentJob.description }: the job whose title, skills and description the
\* analysis call is given, the uploaded description standing for itself
JobContext(run) ==
    IF run.ctx = "parsed" THEN TempJdId ELSE run.job.id

\* the body of the loop for item j, up to the await of analyzeResume
StartItem(r, run, fs, j, an) ==
    /\ files' = MarkParsing(MarkReading(fs, j), j)
    /\ runs' = [Forget(runs) EXCEPT ![r] = [run EXCEPT !.pc = "analyze", !.i = j,
                    !.calls = @ + 1, !.touched = @ + 2, !.given = JobContext(run)]]
    /\ isAnalyzing' = an

\* the loop from index `from` up to its next await, or to the end of the run
\* (an: the value of isAnalyzing while the run goes on)
Continue(r, run, fs, from, an) ==
    LET j == NextIndex(run.files, from) IN
    IF j > Len(run.files) THEN Finish(r, run, fs, "loop")
    ELSE IF Throttled(j)
         THEN /\ runs' = [Forget(runs) EXCEPT ![r] = [run EXCEPT !.pc = "delay", !.i = j]]
              /\ files' = fs
              /\ isAnalyzing' = an
         ELSE StartItem(r, run, fs, j, an)

\* (variant: a failed item leaves the notice as it was)
ItemErrorSilent(r, run) ==
    /\ errorMsg' = errorMsg
    /\ Continue(r, [run EXCEPT !.touched = @ + 1, !.msgs = @ + 1],
                MarkError(files, run.i), run.i + 1, isAnalyzing)

\* catch (err) of the loop body: the item fails, the loop goes on
ItemError(r, run) ==
    /\ errorMsg' = Msg("item", run.files[run.i].id)
    /\ Continue(r, [run EXCEPT !.touched = @ + 1, !.msgs = @ + 1],
                MarkError(files, run.i), run.i + 1, isAnalyzing)

\* the item is done: COMPLETED, then on to the next one
Complete(r, run) ==
    Continue(r, [run EXCEPT !.touched = @ + 1, !.completed = @ + 1],
             MarkCompleted(files, run.i, run.data), run.i + 1, isAnalyzing)

\* associatedJdId of the candidate record
AssociatedJdId(run) ==
    IF component = "Parsed" /\ run.src = "upload" THEN TempJdId ELSE run.sel

\* const newCandidate: Candidate = {...}
NewCandidate(run) ==
    [file |-> run.files[run.i].id,
     associatedJdId |-> AssociatedJdId(run),
     matchScore |-> MatchScore(run.data)]

\* the partial document handed to db.jobs.updateOne
JobStats(job, score) ==
    [applicantsCount |-> job.applicantsCount + 1,
     matchesCount |-> IF HighMatch(score) THEN job.matchesCount + 1 ELSE job.matchesCount]

\* a call may fail while the behaviour's failures are not used up
MayFail == faults < MaxFaults
Outcome(ok) == /\ (~ok => MayFail)
               /\ faults' = IF ok THEN faults ELSE faults + 1

\* ------------------------------------------------------ record construction
\* what a score field of the analysis answer can hold after JSON.parse: nothing,
\* a number, a string that reads as a number, or another string
Undefined == [t |-> "undefined", n |-> 0]
NaN == [t |-> "NaN", n |-> 0]
Num(n) == [t |-> "number", n |-> n]
NumericString(n) == [t |-> "numeric string", n |-> n]
OtherString == [t |-> "string", n |-> 0]
ScoreAnswers == {Undefined, OtherString, NumericString(85),
                 Num(-5), Num(0), Num(80), Num(91), Num(150)}

\* Number(v)
ToNumber(v) ==
    CASE v.t = "number" -> v
      [] v.t = "numeric string" -> Num(v.n)
      [] OTHER -> NaN

\* v || 0
OrZero(v) ==
    IF v.t \in {"undefined", "NaN"} \/ (v.t = "number" /\ v.n = 0) THEN Num(0) ELSE v

\* const matchScore = Number(data.matchScore) || 0
OverallScore(d) == OrZero(ToNumber(d.matchScore))

\* data.jdMatchScore || 0, and the same for the other sub-scores
SubScore(v) == OrZero(v)

\* sizes of the selected documents, in bytes, around the inline limit
FileSizes == {0, 1, 1048575, 1048576, 1048577}

\* 1 * 1024 * 1024
MAX_INLINE_BYTES == 1 * 1024 * 1024

\* a string of the given length, and the value of a missing array element
Text(len) == [t |-> "string", len |-> len]
NoText == [t |-> "undefined", len |-> 0]

\* fileToBase64: the part of the data URL after its comma, four characters for
\* every three bytes; the data URL of an empty file has an empty part after
\* the comma or, in browsers that answer "data:", no comma at all
FileToBase64(size) ==
    {Text(4 * ((size + 2) \div 3))} \cup (IF size = 0 THEN {NoText} ELSE {})

\* (variant: a document of exactly 1 MiB is still stored inline)
ResumeBase64UpToLimit(file, b64) ==
    IF file.size <= MAX_INLINE_BYTES THEN b64 ELSE Text(0)

\* resumeBase64: (currentFile.file.size < 1 * 1024 * 1024) ? base64Data : ""
ResumeBase64(file, b64) ==
    IF file.size < MAX_INLINE_BYTES THEN b64 ELSE Text(0)

\* const newCandidate: Candidate = {...}: the scores and the payload
Candidate(file, d, b64) ==
    [matchScore |-> OverallScore(d),
     jdMatchScore |-> SubScore(d.jdMatchScore),
     qualificationMatchScore |-> SubScore(d.qualificationMatchScore),
     resumeMatchScore |-> SubScore(d.resumeMatchScore),
     resumeBase64 |-> ResumeBase64(file, b64)]

\* ------------------------------------------------------------------- Init
\* the page after its mount effect
InitPage ==
    /\ component \in Components
    /\ dbJobs = [j \in AllJobIds |-> IF j \in JobIds
                    THEN [present |-> TRUE, applicantsCount |-> 0, matchesCount |-> 0]
                    ELSE NoJob]
    /\ dbCandidates = << >>
    /\ jobs = JobIds                \* fetchJobs at mount
    /\ selectedJobId = "j1"         \* data[0].id
    /\ files = << >>
    /\ isAnalyzing = FALSE
    /\ errorMsg = NoMsg
    /\ jobSource = "database"
    /\ parsedJd = FALSE
    /\ isParsingJd = FALSE
    /\ jdFile = FALSE
    /\ runs = [r \in RunIds |-> IdleRun]
    /\ nextFile = 0
    /\ minted = 0
    /\ faults = 0
    /\ deletes = 0
    /\ events = 0

\* the chat page before it is mounted
NoContext == [type |-> "null", resumeBase64 |-> FALSE]
NoChat ==
    /\ messages = << >>
    /\ context = NoContext
    /\ conversationHistory = << >>

Init ==
    /\ InitPage
    /\ currentFile = [size |-> 1]
    /\ resumeData = [matchScore |-> Undefined, jdMatchScore |-> Undefined,
               qualificationMatchScore |-> Undefined, resumeMatchScore |-> Undefined]
    /\ base64Data = << >>
    /\ newCandidate = << >>
    /\ NoChat

\* ------------------------------------------------------------ user events
UserEvent == events < MaxEvents /\ events' = events + 1

\* handleFileSelect: n files picked in the dialog are appended as READY items
AddFiles ==
    /\ UserEvent
    /\ \E n \in 1..2 :
        /\ nextFile + n <= MaxFiles
        /\ files' = files \o [k \in 1..n |-> NewUploadFile(nextFile + k)]
        /\ nextFile' = nextFile + n
    /\ UNCHANGED <<recordVars, chatVars>>
    /\ UNCHANGED <<deletes, component, jobs, selectedJobId, isAnalyzing, errorMsg, jobSource,
                   parsedJd, isParsingJd, jdFile, dbJobs, dbCandidates, runs, minted, faults>>

\* (variant: the item is dropped together with every item behind it)
RemoveFileAndLater ==
    /\ UserEvent
    /\ \E k \in DOMAIN files :
        files' = SubSeq(files, 1, k - 1)
    /\ UNCHANGED <<recordVars, chatVars>>
    /\ UNCHANGED <<deletes, component, jobs, selectedJobId, isAnalyzing, errorMsg, jobSource,
                   parsedJd, isParsingJd, jdFile, dbJobs, dbCandidates, runs, nextFile,
                   minted, faults>>

\* removeFile(id), from the close button of a listed item
RemoveFile ==
    /\ UserEvent
    /\ \E k \in DOMAIN files :
        files' = SelectSeq(files, LAMBDA f : f.id # files[k].id)
    /\ UNCHANGED <<recordVars, chatVars>>
    /\ UNCHANGED <<deletes, component, jobs, selectedJobId, isAnalyzing, errorMsg, jobSource,
                   parsedJd, isParsingJd, jdFile, dbJobs, dbCandidates, runs, nextFile,
                   minted, faults>>

\* the job <select>'s onChange
SelectJob ==
    /\ UserEvent
    /\ component = "Select" \/ jobSource = "database"
    /\ \E j \in jobs : j # selectedJobId /\ selectedJobId' = j
    /\ UNCHANGED <<recordVars, chatVars>>
    /\ UNCHANGED <<deletes, component, jobs, files, isAnalyzing, errorMsg, jobSource,
                   parsedJd, isParsingJd, jdFile, dbJobs, dbCandidates, runs, nextFile,
                   minted, faults>>

\* the close button of the error notice
DismissError ==
    /\ UserEvent
    /\ errorMsg # NoMsg
    /\ errorMsg' = NoMsg
    /\ UNCHANGED <<recordVars, chatVars>>
    /\ UNCHANGED <<deletes, component, jobs, selectedJobId, files, isAnalyzing, jobSource,
                   parsedJd, isParsingJd, jdFile, dbJobs, dbCandidates, runs, nextFile,
                   minted, faults>>

\* the source tabs: setJobSource / setJdSource
SetJobSource ==
    /\ UserEvent
    /\ component # "Select"
    /\ \E s \in {"database", "upload"} : s # jobSource /\ jobSource' = s
    /\ UNCHANGED <<recordVars, chatVars>>
    /\ UNCHANGED <<deletes, component, jobs, selectedJobId, files, isAnalyzing, errorMsg,
                   parsedJd, isParsingJd, jdFile, dbJobs, dbCandidates, runs, nextFile,
                   minted, faults>>

\* Parsed: handleJdUpload up to its await
JdUpload ==
    /\ UserEvent
    /\ component = "Parsed" /\ jobSource = "upload"
    /\ ~parsedJd /\ ~isParsingJd
    /\ isParsingJd' = TRUE
    /\ parsedJd' = FALSE
    /\ errorMsg' = NoMsg
    /\ UNCHANGED <<recordVars, chatVars>>
    /\ UNCHANGED <<deletes, component, jobs, selectedJobId, files, isAnalyzing, jobSource,
                   jdFile, dbJobs, dbCandidates, runs, nextFile, minted, faults>>

\* Parsed: handleJdUpload after extractJobDetailsFromPDF answered or threw
JdUploadReturn ==
    /\ component = "Parsed" /\ isParsingJd
    /\ \E ok \in BOOLEAN :
        /\ Outcome(ok)
        /\ parsedJd' = ok
        /\ errorMsg' = IF ok THEN errorMsg ELSE Msg("jdparse", 0)
    /\ isParsingJd' = FALSE
    /\ UNCHANGED <<recordVars, chatVars>>
    /\ UNCHANGED <<events, deletes, component, jobs, selectedJobId, files, isAnalyzing, jobSource,
                   jdFile, dbJobs, dbCandidates, runs, nextFile, minted>>

\* Parsed: the REMOVE button of the parsed description
RemoveParsedJd ==
    /\ UserEvent
    /\ component = "Parsed" /\ jobSource = "upload"
    /\ parsedJd /\ ~isParsingJd
    /\ parsedJd' = FALSE
    /\ UNCHANGED <<recordVars, chatVars>>
    /\ UNCHANGED <<deletes, component, jobs, selectedJobId, files, isAnalyzing, errorMsg, jobSource,
                   isParsingJd, jdFile, dbJobs, dbCandidates, runs, nextFile, minted, faults>>

\* Minted: the description input's onChange, setJdFile(e.target.files[0])
SetJdFile ==
    /\ UserEvent
    /\ component = "Minted" /\ jobSource = "upload"
    /\ ~jdFile
    /\ jdFile' = TRUE
    /\ UNCHANGED <<recordVars, chatVars>>
    /\ UNCHANGED <<deletes, component, jobs, selectedJobId, files, isAnalyzing, errorMsg, jobSource,
                   parsedJd, isParsingJd, dbJobs, dbCandidates, runs, nextFile, minted, faults>>

\* the store is shared: another client deletes a job
DeleteJob ==
    /\ deletes < MaxDeletes
    /\ deletes' = deletes + 1
    /\ \E j \in StoredJobs : dbJobs' = [dbJobs EXCEPT ![j] = NoJob]
    /\ UNCHANGED <<recordVars, chatVars>>
    /\ UNCHANGED <<events, component, jobs, selectedJobId, files, isAnalyzing, errorMsg, jobSource,
                   parsedJd, isParsingJd, jdFile, dbCandidates, runs, nextFile, minted, faults>>

\* ------------------------------------------------------------ startAnalysis
\* invocations are numbered in the order of the clicks
FreeSlot(r) ==
    /\ runs[r].pc = "idle"
    /\ \A q \in RunIds : q < r => runs[q].pc # "idle"

\* startAnalysis from its first line to its first await
StartAnalysis(r) ==
    IF Validation # ""
    THEN /\ errorMsg' = Msg("validation", 0)
         /\ UNCHANGED <<files, runs, isAnalyzing>>
    ELSE LET run == [IdleRun EXCEPT !.files = Snapshot(files), !.sel = selectedJobId,
                                    !.src = jobSource] IN
         /\ errorMsg' = NoMsg
         /\ IF component = "Parsed" /\ jobSource = "upload"
            THEN Continue(r, [run EXCEPT !.ctx = "parsed"], files, 1, TRUE)
            ELSE /\ runs' = [Forget(runs) EXCEPT ![r] =
                       IF component = "Minted" /\ jobSource = "upload" /\ jdFile
                       THEN [run EXCEPT !.pc = "extract", !.ctx = "minted"]
                       ELSE [run EXCEPT !.pc = "find", !.ctx = "store"]]
                 /\ isAnalyzing' = TRUE
                 /\ UNCHANGED files

\* a click on the Score button
ClickScore ==
    /\ ~ScoreDisabled
    /\ (component = "Minted" /\ jobSource = "upload" /\ jdFile) => minted < MaxMint
    /\ \E r \in RunIds : FreeSlot(r) /\ StartAnalysis(r)
    /\ UNCHANGED <<recordVars, chatVars>>
    /\ UNCHANGED <<events, deletes, component, jobs, selectedJobId, jobSource, parsedJd, isParsingJd, jdFile,
                   dbJobs, dbCandidates, nextFile, minted, faults>>

\* await db.jobs.find() at the head of the run answers: the job is looked up
FindReturn(r) ==
    /\ runs[r].pc = "find"
    /\ \E ok \in BOOLEAN :
        /\ Outcome(ok)
        /\ LET job == FindJob(runs[r].sel) IN
           IF ~ok
           THEN /\ errorMsg' = Msg("fatal", 0)
                /\ Finish(r, [runs[r] EXCEPT !.msgs = @ + 1], files, "fatal")
           ELSE IF job.id = ""
           THEN /\ errorMsg' = IF component = "Parsed" THEN Msg("fatal", 0) ELSE Msg("notfound", 0)
                /\ Finish(r, [runs[r] EXCEPT !.msgs = @ + 1], files, "notfound")
           ELSE /\ Continue(r, [runs[r] EXCEPT !.job = job, !.before = job.applicantsCount],
                            files, 1, isAnalyzing)
                /\ UNCHANGED errorMsg
    /\ UNCHANGED <<recordVars, chatVars>>
    /\ UNCHANGED <<events, deletes, component, jobs, selectedJobId, jobSource, parsedJd, isParsingJd, jdFile,
                   dbJobs, dbCandidates, nextFile, minted>>

\* (variant: the catch sets the message but does not return; the run goes on
\* to the loop)
ExtractFailureGoesOn(r) ==
    /\ errorMsg' = Msg("extract", 0)
    /\ Continue(r, [runs[r] EXCEPT !.msgs = @ + 1], files, 1, isAnalyzing)

\* Minted: catch (err) around the extraction: one message, the run returns
ExtractFailure(r) ==
    /\ errorMsg' = Msg("extract", 0)
    /\ Finish(r, [runs[r] EXCEPT !.msgs = @ + 1], files, "extract")

\* (variant: the job record is saved without being awaited; the loop starts
\* at once)
ExtractReturnFireAndForget(r) ==
    /\ runs[r].pc = "extract"
    /\ \E ok \in BOOLEAN :
        /\ Outcome(ok)
        /\ IF ok
           THEN LET id == MintId(minted) IN
                /\ jobs' = jobs \cup {id}
                /\ selectedJobId' = id
                /\ minted' = minted + 1
                /\ Continue(r, [runs[r] EXCEPT
                        !.job = [id |-> id, applicantsCount |-> 0, matchesCount |-> 0]],
                            files, 1, isAnalyzing)
                /\ UNCHANGED errorMsg
           ELSE /\ ExtractFailure(r)
                /\ UNCHANGED <<jobs, selectedJobId, minted>>
    /\ UNCHANGED <<recordVars, chatVars>>
    /\ UNCHANGED <<events, deletes, component, jobSource, parsedJd, isParsingJd, jdFile, dbJobs, dbCandidates,
                   nextFile>>

\* Minted: extractJobDetailsFromPDF(jdFile) answers or throws
ExtractReturn(r) ==
    /\ runs[r].pc = "extract"
    /\ \E ok \in BOOLEAN :
        /\ Outcome(ok)
        /\ IF ok
           THEN LET id == MintId(minted) IN
                /\ jobs' = jobs \cup {id}
                /\ selectedJobId' = id
                /\ minted' = minted + 1
                /\ runs' = [runs EXCEPT ![r] = [@ EXCEPT !.pc = "insertJob",
                        !.job = [id |-> id, applicantsCount |-> 0, matchesCount |-> 0]]]
                /\ UNCHANGED <<files, isAnalyzing, errorMsg>>
           ELSE /\ ExtractFailure(r)
                /\ UNCHANGED <<jobs, selectedJobId, minted>>
    /\ UNCHANGED <<recordVars, chatVars>>
    /\ UNCHANGED <<events, deletes, component, jobSource, parsedJd, isParsingJd, jdFile, dbJobs, dbCandidates,
                   nextFile>>

\* Minted: await db.jobs.insertOne(newJob) answers or throws
InsertJobReturn(r) ==
    /\ runs[r].pc = "insertJob"
    /\ \E ok \in BOOLEAN :
        /\ Outcome(ok)
        /\ IF ok
           THEN /\ dbJobs' = [dbJobs EXCEPT ![runs[r].job.id] =
                        [present |-> TRUE, applicantsCount |-> 0, matchesCount |-> 0]]
                /\ Continue(r, [runs[r] EXCEPT !.jobIns = @ + 1], files, 1, isAnalyzing)
                /\ UNCHANGED errorMsg
           ELSE /\ errorMsg' = Msg("extract", 0)
                /\ Finish(r, [runs[r] EXCEPT !.msgs = @ + 1], files, "insertJob")
                /\ UNCHANGED dbJobs
    /\ UNCHANGED <<recordVars, chatVars>>
    /\ UNCHANGED <<events, deletes, component, jobs, selectedJobId, jobSource, parsedJd, isParsingJd, jdFile,
                   dbCandidates, nextFile, minted>>

\* the 3000 ms timer of the throttle fires
DelayElapsed(r) ==
    /\ runs[r].pc = "delay"
    /\ StartItem(r, [runs[r] EXCEPT !.waited = @ + THROTTLE_MS], files, runs[r].i, isAnalyzing)
    /\ UNCHANGED <<recordVars, chatVars>>
    /\ UNCHANGED <<events, deletes, component, jobs, selectedJobId, errorMsg, jobSource, parsedJd, isParsingJd,
                   jdFile, dbJobs, dbCandidates, nextFile, minted, faults>>

\* analyzeResume answers with a score, or throws
AnalyzeReturn(r) ==
    /\ runs[r].pc = "analyze"
    /\ \E ok \in BOOLEAN :
        /\ Outcome(ok)
        /\ IF ok
           THEN \E s \in Scores :
                /\ files' = MarkScored(files, runs[r].i)
                /\ runs' = [runs EXCEPT ![r] = [@ EXCEPT !.pc = "read",
                        !.data = [matchScore |-> s], !.touched = @ + 1]]
                /\ UNCHANGED <<isAnalyzing, errorMsg>>
           ELSE ItemError(r, runs[r])
    /\ UNCHANGED <<recordVars, chatVars>>
    /\ UNCHANGED <<events, deletes, component, jobs, selectedJobId, jobSource, parsedJd, isParsingJd, jdFile,
                   dbJobs, dbCandidates, nextFile, minted>>

\* fileToBase64(currentFile.file) answers or rejects
ReadReturn(r) ==
    /\ runs[r].pc = "read"
    /\ \E ok \in BOOLEAN :
        /\ Outcome(ok)
        /\ IF ok
           THEN /\ runs' = [runs EXCEPT ![r] = [@ EXCEPT !.pc = "insertCand"]]
                /\ UNCHANGED <<files, isAnalyzing, errorMsg>>
           ELSE ItemError(r, runs[r])
    /\ UNCHANGED <<recordVars, chatVars>>
    /\ UNCHANGED <<events, deletes, component, jobs, selectedJobId, jobSource, parsedJd, isParsingJd, jdFile,
                   dbJobs, dbCandidates, nextFile, minted>>

\* (variant: the job counters are updated whatever the source of the job
\* context)
InsertCandidateReturnAlwaysUpdates(r) ==
    /\ runs[r].pc = "insertCand"
    /\ \E ok \in BOOLEAN :
        /\ Outcome(ok)
        /\ IF ok
           THEN LET run == [runs[r] EXCEPT !.candIns = @ + 1] IN
                /\ dbCandidates' = Append(dbCandidates, NewCandidate(runs[r]))
                /\ IF component = "Parsed"
                   THEN /\ runs' = [runs EXCEPT ![r] = [run EXCEPT !.pc = "refetch"]]
                        /\ UNCHANGED <<files, isAnalyzing>>
                   ELSE /\ runs' = [runs EXCEPT ![r] = [run EXCEPT !.pc = "updateJob",
                                !.upd = JobStats(run.job, MatchScore(run.data))]]
                        /\ UNCHANGED <<files, isAnalyzing>>
                /\ UNCHANGED errorMsg
           ELSE /\ ItemError(r, runs[r])
                /\ UNCHANGED dbCandidates
    /\ UNCHANGED <<recordVars, chatVars>>
    /\ UNCHANGED <<events, deletes, component, jobs, selectedJobId, jobSource, parsedJd, isParsingJd, jdFile,
                   dbJobs, nextFile, minted>>

\* await db.candidates.insertOne(newCandidate) answers or throws
InsertCandidateReturn(r) ==
    /\ runs[r].pc = "insertCand"
    /\ \E ok \in BOOLEAN :
        /\ Outcome(ok)
        /\ IF ok
           THEN LET run == [runs[r] EXCEPT !.candIns = @ + 1] IN
                /\ dbCandidates' = Append(dbCandidates, NewCandidate(runs[r]))
                /\ IF component = "Parsed"
                   THEN IF run.src = "database"
                        THEN /\ runs' = [runs EXCEPT ![r] = [run EXCEPT !.pc = "refetch"]]
                             /\ UNCHANGED <<files, isAnalyzing>>
                        ELSE Complete(r, run)
                   ELSE /\ runs' = [runs EXCEPT ![r] = [run EXCEPT !.pc = "updateJob",
                                !.upd = JobStats(run.job, MatchScore(run.data))]]
                        /\ UNCHANGED <<files, isAnalyzing>>
                /\ UNCHANGED errorMsg
           ELSE /\ ItemError(r, runs[r])
                /\ UNCHANGED dbCandidates
    /\ UNCHANGED <<recordVars, chatVars>>
    /\ UNCHANGED <<events, deletes, component, jobs, selectedJobId, jobSource, parsedJd, isParsingJd, jdFile,
                   dbJobs, nextFile, minted>>

\* Parsed: the per-item db.jobs.find() answers or throws
RefetchReturn(r) ==
    /\ runs[r].pc = "refetch"
    /\ \E ok \in BOOLEAN :
        /\ Outcome(ok)
        /\ IF ok
           THEN LET currentJob == FindJob(runs[r].sel) IN
                /\ IF currentJob.id # ""
                   THEN /\ runs' = [runs EXCEPT ![r] = [@ EXCEPT !.pc = "updateJob",
                                !.job = currentJob,
                                !.upd = JobStats(currentJob, MatchScore(runs[r].data))]]
                        /\ UNCHANGED <<files, isAnalyzing>>
                   ELSE Complete(r, runs[r])
                /\ UNCHANGED errorMsg
           ELSE ItemError(r, runs[r])
    /\ UNCHANGED <<recordVars, chatVars>>
    /\ UNCHANGED <<events, deletes, component, jobs, selectedJobId, jobSource, parsedJd, isParsingJd, jdFile,
                   dbJobs, dbCandidates, nextFile, minted>>

\* await db.jobs.updateOne(currentJob.id, {...}) answers or throws
UpdateJobReturn(r) ==
    /\ runs[r].pc = "updateJob"
    /\ \E ok \in BOOLEAN :
        /\ Outcome(ok)
        /\ IF ok
           THEN /\ dbJobs' = UpdateOne(dbJobs, runs[r].job.id, runs[r].upd)
                /\ Complete(r, [runs[r] EXCEPT !.jobUpd = @ + 1])
                /\ UNCHANGED errorMsg
           ELSE /\ ItemError(r, runs[r])
                /\ UNCHANGED dbJobs
    /\ UNCHANGED <<recordVars, chatVars>>
    /\ UNCHANGED <<events, deletes, component, jobs, selectedJobId, jobSource, parsedJd, isParsingJd, jdFile,
                   dbCandidates, nextFile, minted>>

Next ==
    \/ AddFiles
    \/ RemoveFile
    \/ SelectJob
    \/ DismissError
    \/ SetJobSource
    \/ JdUpload
    \/ JdUploadReturn
    \/ RemoveParsedJd
    \/ SetJdFile
    \/ DeleteJob
    \/ ClickScore
    \/ \E r \in RunIds : FindReturn(r)
    \/ \E r \in RunIds : ExtractReturn(r)
    \/ \E r \in RunIds : InsertJobReturn(r)
    \/ \E r \in RunIds : DelayElapsed(r)
    \/ \E r \in RunIds : AnalyzeReturn(r)
    \/ \E r \in RunIds : ReadReturn(r)
    \/ \E r \in RunIds : InsertCandidateReturn(r)
    \/ \E r \in RunIds : RefetchReturn(r)
    \/ \E r \in RunIds : UpdateJobReturn(r)

Spec == Init /\ [][Next]_vars

\* every call that is awaited answers or fails in the end, and every throttle
\* timer fires
Fairness ==
    /\ WF_vars(JdUploadReturn)
    /\ WF_vars(\E r \in RunIds : FindReturn(r))
    /\ WF_vars(\E r \in RunIds : ExtractReturn(r))
    /\ WF_vars(\E r \in RunIds : InsertJobReturn(r))
    /\ WF_vars(\E r \in RunIds : DelayElapsed(r))
    /\ WF_vars(\E r \in RunIds : AnalyzeReturn(r))
    /\ WF_vars(\E r \in RunIds : ReadReturn(r))
    /\ WF_vars(\E r \in RunIds : InsertCandidateReturn(r))
    /\ WF_vars(\E r \in RunIds : RefetchReturn(r))
    /\ WF_vars(\E r \in RunIds : UpdateJobReturn(r))

LiveSpec == Spec /\ Fairness

\* ---------------------------------- the construction of one candidate record
\* one document of any size and one analysis answer of any content
InitRecord ==
    /\ InitPage
    /\ component = "Select"
    /\ currentFile \in [size : FileSizes]
    /\ resumeData \in [matchScore : ScoreAnswers, jdMatchScore : ScoreAnswers,
                 qualificationMatchScore : ScoreAnswers, resumeMatchScore : ScoreAnswers]
    /\ base64Data = << >>
    /\ newCandidate = << >>
    /\ NoChat

\* const base64Data = await fileToBase64(currentFile.file)
ReadDocument ==
    /\ base64Data = << >>
    /\ \E b \in FileToBase64(currentFile.size) : base64Data' = <<b>>
    /\ UNCHANGED <<pageVars, currentFile, resumeData, newCandidate, chatVars>>

\* const newCandidate: Candidate = {...}
BuildCandidate ==
    /\ base64Data # << >>
    /\ newCandidate = << >>
    /\ newCandidate' = <<Candidate(currentFile, resumeData, base64Data[1])>>
    /\ UNCHANGED <<pageVars, currentFile, resumeData, base64Data, chatVars>>

NextRecord ==
    \/ ReadDocument
    \/ BuildCandidate

SpecRecord == InitRecord /\ [][NextRecord]_vars

\* ------------------------------------------------------------- the chat page
\* The history handleSend hands to the chat provider is a function of the
\* message list and the chat context it is invoked on: the page is started on
\* every stored message list up to MaxMessages messages and every context.
Roles == {"user", "assistant"}
MessageLists == UNION {[1..n -> Roles] : n \in 0..MaxMessages}

\* a job, or a candidate record with or without its resumeBase64
Contexts ==
    {NoContext, [type |-> "job", resumeBase64 |-> FALSE]}
        \cup [type : {"resume", "candidate"}, resumeBase64 : BOOLEAN]

\* (context.type === 'resume' || context.type === 'candidate') && context.data
\*     && context.data.resumeBase64
HasResume(ctx) == ctx.type \in {"resume", "candidate"} /\ ctx.resumeBase64

\* const role = msg.role === 'user' ? 'user' : 'model'
HistoryRole(role) == IF role = "user" THEN "user" ELSE "model"

\* the for loop over previousMessages: a message is pushed when the history is
\* empty or its last turn has the other role
RECURSIVE PushTurns(_, _)
PushTurns(history, previousMessages) ==
    IF previousMessages = << >> THEN history
    ELSE LET role == HistoryRole(Head(previousMessages)) IN
         IF history = << >> \/ history[Len(history)] # role
         THEN PushTurns(Append(history, role), Tail(previousMessages))
         ELSE PushTurns(history, Tail(previousMessages))

\* messages.slice(1)
PreviousMessages(msgs) == IF msgs = << >> THEN << >> ELSE Tail(msgs)

\* the two turns that carry the resume document
Injected(ctx) == IF HasResume(ctx) THEN <<"user", "model">> ELSE << >>

\* (variant: a history that starts with a model turn is handed on as it is)
ConversationHistoryUnadjusted(msgs, ctx) ==
    PushTurns(Injected(ctx), PreviousMessages(msgs))

\* conversationHistory as handed to model.startChat({ history })
ConversationHistory(msgs, ctx) ==
    LET history == PushTurns(Injected(ctx), PreviousMessages(msgs)) IN
    IF Len(history) > 0 /\ history[1] # "user" /\ ~HasResume(ctx)
    THEN Tail(history)
    ELSE history

InitChat ==
    /\ InitPage
    /\ component = "Select"
    /\ currentFile = [size |-> 1]
    /\ resumeData = [matchScore |-> Undefined, jdMatchScore |-> Undefined,
               qualificationMatchScore |-> Undefined, resumeMatchScore |-> Undefined]
    /\ base64Data = << >>
    /\ newCandidate = << >>
    /\ messages \in MessageLists
    /\ context \in Contexts
    /\ conversationHistory = << >>

\* startNewChat: the greeting alone, no context
StartNewChat ==
    /\ messages # <<"assistant">> \/ context # NoContext
    /\ messages' = <<"assistant">>
    /\ context' = NoContext
    /\ UNCHANGED <<pageVars, recordVars, conversationHistory>>

\* loadContextData: the context is set and a system message added, or the
\* load fails and only the message is added
LoadContextData ==
    /\ Len(messages) < MaxMessages
    /\ \E c \in Contexts : (c.type # "null" \/ c = context) /\ context' = c
    /\ messages' = Append(messages, "assistant")
    /\ UNCHANGED <<pageVars, recordVars, conversationHistory>>

\* clearContext
ClearContext ==
    /\ Len(messages) < MaxMessages
    /\ context.type # "null"
    /\ context' = NoContext
    /\ messages' = Append(messages, "assistant")
    /\ UNCHANGED <<pageVars, recordVars, conversationHistory>>

\* handleSend on a non-empty input: the user's message and the assistant's
\* answer (or the error text) are appended, and unless the API key is missing
\* the history is built from the messages the handler was invoked on
HandleSend ==
    /\ Len(messages) + 2 <= MaxMessages
    /\ messages' = messages \o <<"user", "assistant">>
    /\ \E apiKey \in BOOLEAN :
        conversationHistory' =
            IF apiKey THEN ConversationHistory(messages, context) ELSE conversationHistory
    /\ UNCHANGED <<pageVars, recordVars, context>>

NextChat ==
    \/ StartNewChat
    \/ LoadContextData
    \/ ClearContext
    \/ HandleSend

SpecChat == InitChat /\ [][NextChat]_vars

\* ================================================================== claims
NoRunActive == \A r \in RunIds : runs[r].pc \in {"idle", "done"}
InLoop(r) == runs[r].pc \in {"delay", "analyze", "read", "insertCand", "refetch", "updateJob"}
AtItem(r) == runs[r].pc \in {"analyze", "read", "insertCand", "refetch", "updateJob"}
RecordsOf(id) == Cardinality({n \in DOMAIN dbCandidates : dbCandidates[n].file = id})
CompletedItems == {k \in DOMAIN files : files[k].status = "COMPLETED"}
Pending(snap) == {j \in DOMAIN snap : snap[j].status # "COMPLETED"}

\* C1: when no run is active, every item of the queue has one candidate record
\* if its status is COMPLETED and none otherwise, and as long as no item was
\* removed the store holds as many records as there are COMPLETED items.
C1_RecordIffCompleted ==
    NoRunActive =>
        /\ \A k \in DOMAIN files :
              RecordsOf(files[k].id) = IF files[k].status = "COMPLETED" THEN 1 ELSE 0
        /\ Len(files) = nextFile => Len(dbCandidates) = Cardinality(CompletedItems)

\* C2: failure isolation.  In the step in which a call made for item k of a run
\* fails, item k (when it is still in the queue) becomes ERROR with progress 0,
\* the error notice names it, and the run goes on to the next item that is not
\* COMPLETED (it ends only when there is none).
C2_FailureIsolation ==
    [][\A r \in RunIds :
         (AtItem(r) /\ runs'[r].msgs = runs[r].msgs + 1) =>
            LET id == runs[r].files[runs[r].i].id
                nxt == NextIndex(runs[r].files, runs[r].i + 1) IN
            /\ \A k \in DOMAIN files' :
                  files'[k].id = id => files'[k].status = "ERROR" /\ files'[k].progress = 0
            /\ errorMsg' = Msg("item", id)
            /\ IF nxt <= Len(runs[r].files)
               THEN runs'[r].pc = "delay" /\ runs'[r].i = nxt
               ELSE runs'[r].pc = "done"]_vars

\* C3: at most one analysis call is in flight in every reachable state.
C3_OneAnalysisInFlight ==
    Cardinality({r \in RunIds : runs[r].pc = "analyze"}) <= 1

\* C3 witness: an analysis call is in flight while the user has changed the
\* queue and the job selection under the run.
C3_Witness ==
    \E r \in RunIds :
        /\ runs[r].pc = "analyze"
        /\ Len(files) # Len(runs[r].files)
        /\ selectedJobId # runs[r].sel

\* C4 as stated: a run over N items that went through its loop issued at most N
\* analysis calls and waited the 3000 ms delay exactly N-1 times.
C4_ExactlyNMinus1Delays ==
    \A r \in RunIds :
        (runs[r].end = "loop" /\ Len(runs[r].files) >= 1) =>
            /\ runs[r].calls <= Len(runs[r].files)
            /\ runs[r].waited = THROTTLE_MS * (Len(runs[r].files) - 1)

\* C4 amended: a run over N items that went through its loop issued one analysis
\* call per item that was not COMPLETED at its start (at most N), and waited the
\* 3000 ms delay once for each such item other than the first of the queue: at
\* most N-1 times, and exactly N-1 times when no item after the first was
\* COMPLETED.
C4_OneDelayPerPendingItem ==
    \A r \in RunIds :
        (runs[r].end = "loop" /\ Len(runs[r].files) >= 1) =>
            LET snap == runs[r].files
                N == Len(snap) IN
            /\ runs[r].calls = Cardinality(Pending(snap))
            /\ runs[r].calls <= N
            /\ runs[r].waited = THROTTLE_MS * Cardinality(Pending(snap) \ {1})
            /\ runs[r].waited <= THROTTLE_MS * (N - 1)
            /\ (2..N) \subseteq Pending(snap) => runs[r].waited = THROTTLE_MS * (N - 1)

\* C4 witness: a finished re-run over two items whose second item was already
\* COMPLETED: one call, no delay.
C4_Witness ==
    \E r \in RunIds :
        /\ runs[r].end = "loop"
        /\ Len(runs[r].files) = 2
        /\ runs[r].files[1].status # "COMPLETED"
        /\ runs[r].files[2].status = "COMPLETED"
        /\ runs[r].calls = 1
        /\ runs[r].waited = 0

\* C5: idempotent resume.  In a run started on a queue holding an item A that
\* was COMPLETED and an item B that was READY, no step of the run changes A or
\* has a call outstanding for A, and the step that ends the processing of B
\* with all its calls answered leaves B (when it is still in the queue)
\* COMPLETED with progress 100, with a candidate record of B in the store.
C5_IdempotentResume ==
    [][\A r \in RunIds :
         (runs'[r] # runs[r] /\ runs'[r].pc # "idle" /\ runs[r].pc # "done") =>
            LET snap == runs'[r].files IN
            \A a \in DOMAIN snap : \A b \in DOMAIN snap :
               (snap[a].status = "COMPLETED" /\ snap[b].status = "READY") =>
                  /\ \A k \in DOMAIN files : files[k].id = snap[a].id =>
                        \E k2 \in DOMAIN files' : files'[k2] = files[k]
                  /\ runs'[r].pc \in {"delay", "analyze", "read", "insertCand",
                                      "refetch", "updateJob"} => runs'[r].i # a
                  /\ (runs[r].i = b /\ runs'[r].completed = runs[r].completed + 1) =>
                        /\ \A k \in DOMAIN files' : files'[k].id = snap[b].id =>
                              files'[k].status = "COMPLETED" /\ files'[k].progress = 100
                        /\ \E n \in DOMAIN dbCandidates' :
                              dbCandidates'[n].file = snap[b].id]_vars

\* C6: in no step does an item's status become ERROR from READY or COMPLETED:
\* ERROR is entered only from READING or PARSING.
C6_ErrorOnlyFromInFlight ==
    [][\A k \in DOMAIN files : \A k2 \in DOMAIN files' :
         (files'[k2].id = files[k].id /\ files'[k2].status = "ERROR"
                                       /\ files[k].status # "ERROR") =>
            files[k].status \in {"READING", "PARSING"}]_vars

\* C7: at the end of a run whose job context came from the store, and with no
\* other writer to the job, the stored applicant counter is its value at the
\* start of the run plus the number of items the run completed.
C7_ApplicantsPlusCompleted ==
    \A r \in RunIds :
        (runs[r].end = "loop" /\ runs[r].ctx = "store" /\ deletes = 0) =>
            dbJobs[runs[r].job.id].applicantsCount = runs[r].before + runs[r].completed

\* C8: the job update of an item writes, as high-match counter, the value the
\* run read plus 1 when the item's overall score is above 80 and the value read
\* otherwise (91 increments; 79 and 80 do not).
C8_HighMatchAbove80 ==
    [][\A r \in RunIds :
         (runs[r].pc = "updateJob" /\ runs'[r].jobUpd = runs[r].jobUpd + 1
                                   /\ runs[r].job.id \in StoredJobs) =>
            LET score == IF runs[r].data.matchScore \in Nat THEN runs[r].data.matchScore ELSE 0
                read == runs[r].job.matchesCount IN
            /\ score \in {79, 80} => dbJobs'[runs[r].job.id].matchesCount = read
            /\ score = 91 => dbJobs'[runs[r].job.id].matchesCount = read + 1
            /\ dbJobs'[runs[r].job.id].matchesCount = IF score > 80 THEN read + 1 ELSE read]_vars

\* C8 witness: a finished run whose only item scored exactly 80 and whose job
\* update was written: the stored high-match counter is the value read.
C8_Witness ==
    \E r \in RunIds :
        /\ runs[r].end = "loop"
        /\ runs[r].jobUpd = 1
        /\ runs[r].data.matchScore = 80
        /\ runs[r].job.id \in StoredJobs
        /\ dbJobs[runs[r].job.id].matchesCount = runs[r].job.matchesCount
        /\ dbJobs[runs[r].job.id].applicantsCount = runs[r].job.applicantsCount + 1

\* C9: the step in which the extraction of the uploaded job description throws
\* ends the run: the queue and both stores are unchanged and the batch-level
\* message is set; and a run ended this way has written no status, issued no
\* analysis call, inserted no job record and no candidate record, and set
\* exactly one error message.
C9_ExtractionFailureAborts ==
    /\ [][\A r \in RunIds :
            (runs[r].pc = "extract" /\ faults' = faults + 1) =>
                /\ runs'[r].pc = "done"
                /\ runs'[r].end = "extract"
                /\ files' = files
                /\ dbJobs' = dbJobs
                /\ dbCandidates' = dbCandidates
                /\ errorMsg' = Msg("extract", 0)
                /\ ~isAnalyzing']_vars
    /\ [](\A r \in RunIds :
            runs[r].end = "extract" =>
                /\ runs[r].pc = "done"
                /\ runs[r].touched = 0
                /\ runs[r].calls = 0
                /\ runs[r].jobIns = 0
                /\ runs[r].candIns = 0
                /\ runs[r].jobUpd = 0
                /\ runs[r].msgs = 1
                /\ errorMsg \in {Msg("extract", 0), NoMsg}
                /\ ~(\E q \in RunIds : InLoop(q)))

\* C9 witness: a run over a queue of READY items ended by a failed extraction.
C9_Witness ==
    \E r \in RunIds :
        /\ runs[r].end = "extract"
        /\ Len(files) >= 1
        /\ \A k \in DOMAIN files : files[k].status = "READY"
        /\ errorMsg = Msg("extract", 0)
        /\ dbCandidates = << >>

\* C10: when the selected job is absent from the store at the moment the run's
\* db.jobs.find() answers, that step ends the run: the queue and both stores are
\* unchanged, one error message is set and isAnalyzing is cleared; and a run
\* ended this way has written no status, issued no call and no store write.
C10_AbsentJobAborts ==
    /\ [][\A r \in RunIds :
            (runs[r].pc = "find" /\ runs'[r].pc # "find" /\ runs[r].sel \notin StoredJobs) =>
                /\ runs'[r].pc = "done"
                /\ runs'[r].end \in {"notfound", "fatal"}
                /\ files' = files
                /\ dbJobs' = dbJobs
                /\ dbCandidates' = dbCandidates
                /\ errorMsg' # NoMsg
                /\ runs'[r].msgs = 1
                /\ ~isAnalyzing']_vars
    /\ [](\A r \in RunIds :
            runs[r].end = "notfound" =>
                /\ runs[r].touched = 0
                /\ runs[r].calls = 0
                /\ runs[r].candIns = 0
                /\ runs[r].jobIns = 0
                /\ runs[r].jobUpd = 0
                /\ runs[r].msgs = 1)

\* C10 witness: a run aborted because its job was gone from the store although
\* the cached job list still shows it; no item left READY.
C10_Witness ==
    \E r \in RunIds :
        /\ runs[r].end = "notfound"
        /\ runs[r].sel \in jobs
        /\ runs[r].sel \notin StoredJobs
        /\ Len(files) >= 1
        /\ \A k \in DOMAIN files : files[k].status = "READY"
        /\ ~isAnalyzing
        /\ errorMsg # NoMsg

\* a job context can be had from the source that is selected: a selected job in
\* store mode, a parsed description or a description document in upload mode
JobContextAvailable ==
    IF jobSource = "upload" /\ component = "Parsed" THEN parsedJd
    ELSE IF jobSource = "upload" /\ component = "Minted" THEN jdFile
    ELSE selectedJobId # ""

\* C12: validation.  No invocation of startAnalysis made with an empty queue,
\* or with no job context available from the selected source, starts a run or
\* raises the in-progress flag: the step changes no item and neither store.
C12_InvalidInvocationRejected ==
    [][(Len(files) = 0 \/ ~JobContextAvailable) =>
          /\ \A r \in RunIds : runs[r].pc = "idle" => runs'[r].pc = "idle"
          /\ ~isAnalyzing => ~isAnalyzing']_vars

\* the invocations of startAnalysis that have started and not yet returned
ActiveRuns == {r \in RunIds : runs[r].pc \notin {"idle", "done"}}

\* C13: the run-in-progress guard.  At most one run is active at any time; the
\* in-progress flag is raised for as long as a run is active; and no step taken
\* while a run is active starts another invocation.
C13_OneActiveRun ==
    /\ [](Cardinality(ActiveRuns) <= 1 /\ (ActiveRuns # {} => isAnalyzing))
    /\ [][ActiveRuns # {} =>
            \A q \in RunIds : runs[q].pc = "idle" => runs'[q].pc = "idle"]_vars

\* C13 witness: a run waits for its throttle delay while the queue is not empty,
\* a job context is available and an invocation is still to be had: only the
\* in-progress flag keeps the Score button disabled.
C13_Witness ==
    \E r \in RunIds : \E q \in RunIds :
        /\ runs[r].pc = "delay"
        /\ runs[q].pc = "idle"
        /\ isAnalyzing
        /\ Len(files) > 0
        /\ JobContextAvailable
        /\ jobs # {}

\* C14 as stated: every run whose job context comes from an uploaded job
\* description has inserted a job record with a newly minted identifier before
\* it issues its first analysis call.
C14_JobInsertedBeforeFirstCall ==
    \A r \in RunIds :
        (runs[r].ctx \in {"minted", "parsed"} /\ runs[r].calls > 0) =>
            runs[r].jobIns = 1 /\ runs[r].job.id \in MintIds

\* C14 amended: a run that extracts the uploaded description itself has inserted
\* one job record, under an identifier neither listed nor stored before, when
\* it issues its first analysis call; a run that uses a description parsed
\* beforehand inserts no job record at all.
C14_MintedBeforeFirstCall ==
    /\ [](\A r \in RunIds :
            /\ (runs[r].ctx = "minted" /\ runs[r].calls > 0) =>
                    runs[r].jobIns = 1 /\ runs[r].job.id \in MintIds
            /\ runs[r].ctx = "parsed" => runs[r].jobIns = 0 /\ runs[r].job.id = "")
    /\ [][\A r \in RunIds :
            /\ (runs[r].pc = "extract" /\ runs'[r].pc = "insertJob") =>
                    /\ runs'[r].job.id \notin jobs
                    /\ ~dbJobs[runs'[r].job.id].present
                    /\ runs'[r].calls = 0
            /\ runs'[r].jobIns = runs[r].jobIns + 1 =>
                    /\ runs[r].calls = 0
                    /\ dbJobs'[runs[r].job.id].present
            /\ (runs[r].ctx = "minted" /\ runs'[r].calls > runs[r].calls) =>
                    runs'[r].jobIns = 1]_vars

\* C14 witness: a run that minted a job has its first analysis call in flight
\* and the minted job is in the store.
C14_Witness ==
    \E r \in RunIds :
        /\ runs[r].ctx = "minted"
        /\ runs[r].pc = "analyze"
        /\ runs[r].calls = 1
        /\ runs[r].jobIns = 1
        /\ runs[r].job.id \in MintIds
        /\ dbJobs[runs[r].job.id].present

\* C15: the candidate record a run inserts carries, as associated job id, the
\* id that the run's job-context resolution produced: the id of the job it
\* found in the store or minted, and the sentinel id when the context is a
\* parsed description that no job record backs.
C15_AssociatedWithResolvedJob ==
    [][\A r \in RunIds :
         runs'[r].candIns = runs[r].candIns + 1 =>
            /\ Len(dbCandidates') = Len(dbCandidates) + 1
            /\ dbCandidates'[Len(dbCandidates')].associatedJdId =
                  IF runs[r].ctx = "parsed" THEN TempJdId ELSE runs[r].job.id]_vars

\* C16 as stated: no step of a run whose job context came from an uploaded job
\* description writes a job update or changes a counter of a stored job.
C16_NoUpdateInUploadMode ==
    [][\A r \in RunIds :
         (runs'[r] # runs[r] /\ runs'[r].ctx \in {"minted", "parsed"}) =>
            /\ runs'[r].jobUpd = 0
            /\ \A j \in AllJobIds :
                  /\ dbJobs'[j].applicantsCount = dbJobs[j].applicantsCount
                  /\ dbJobs'[j].matchesCount = dbJobs[j].matchesCount]_vars

\* C16 amended: no step of a run whose job context is a parsed description
\* that no job record backs re-fetches a job, writes a job update or changes
\* the job store; a run that minted a job record for the description writes
\* each item's update to that minted job and to no other.
C16_NoUpdateWithoutStoredJob ==
    [][\A r \in RunIds :
         /\ (runs'[r] # runs[r] /\ runs'[r].ctx = "parsed") =>
                /\ runs'[r].jobUpd = 0
                /\ runs'[r].pc \notin {"find", "refetch", "updateJob"}
                /\ dbJobs' = dbJobs
         /\ (runs[r].ctx = "minted" /\ runs'[r].jobUpd = runs[r].jobUpd + 1) =>
                /\ runs[r].job.id \in MintIds
                /\ \A j \in AllJobIds \ {runs[r].job.id} : dbJobs'[j] = dbJobs[j]
                /\ dbJobs[runs[r].job.id].present =>
                      dbJobs'[runs[r].job.id].applicantsCount = runs[r].job.applicantsCount + 1]_vars

\* C16 witness: a run on a parsed description has gone through its loop and
\* completed two items without a job update: every counter of the store is
\* as it was at the start.
C16_Witness ==
    \E r \in RunIds :
        /\ runs[r].ctx = "parsed"
        /\ runs[r].end = "loop"
        /\ runs[r].completed = 2
        /\ runs[r].jobUpd = 0
        /\ Len(dbCandidates) = 2
        /\ \A j \in AllJobIds : dbJobs[j].applicantsCount = 0 /\ dbJobs[j].matchesCount = 0

\* C17: across runs and re-runs, the candidate store holds at most one record
\* per upload item, and no step changes or removes a record that is stored.
C17_OneRecordPerItem ==
    /\ [](\A id \in 1..MaxFiles : RecordsOf(id) <= 1)
    /\ [][/\ Len(dbCandidates') >= Len(dbCandidates)
          /\ \A n \in DOMAIN dbCandidates : dbCandidates'[n] = dbCandidates[n]]_vars

\* the place of a status in the order READY < READING < PARSING < COMPLETED
StatusRank(st) ==
    CASE st = "READY" -> 0 [] st = "READING" -> 1 [] st = "PARSING" -> 2
      [] st = "COMPLETED" -> 3 [] OTHER -> -1

\* C18: in every step, an item that stays in the queue keeps its status, moves
\* it forward in the order READY < READING < PARSING < COMPLETED, or becomes
\* ERROR (an item that is ERROR may be taken up again by a later run); and an
\* item that is COMPLETED keeps its status, progress and result.
C18_StatusMonotonic ==
    [][\A k \in DOMAIN files : \A k2 \in DOMAIN files' :
         files'[k2].id = files[k].id =>
            /\ \/ files[k].status = "ERROR"
               \/ files'[k2].status = "ERROR"
               \/ StatusRank(files'[k2].status) >= StatusRank(files[k].status)
            /\ files[k].status = "COMPLETED" => files'[k2] = files[k]]_vars

\* the first half of C19: every run that starts ends, with the in-progress flag
\* cleared
RunsEnd ==
    \A r \in RunIds :
        (runs[r].pc \notin {"idle", "done"}) ~> (runs[r].pc = "done" /\ ~isAnalyzing)

\* the second half of C19: in the step that ends a run which went through its
\* loop, every item that was in the queue when the run started, and still is,
\* is COMPLETED or ERROR
ItemsTerminalAtEnd ==
    [][\A r \in RunIds :
         (runs[r].pc # "done" /\ runs'[r].pc = "done" /\ runs'[r].end = "loop") =>
            \A j \in DOMAIN runs'[r].files : \A k \in DOMAIN files' :
                files'[k].id = runs'[r].files[j].id =>
                    files'[k].status \in {"COMPLETED", "ERROR"}]_vars

\* C19: when every call returns or fails and every delay elapses, each run that
\* starts ends with the in-progress flag cleared, and when a run that resolved
\* its job context ends, every item that was in the queue at its start is
\* COMPLETED or ERROR.
C19_RunsEndWithItemsTerminal == RunsEnd /\ ItemsTerminalAtEnd

\* the files of the queue, in order
QueueIds(fs) == [k \in DOMAIN fs |-> fs[k].id]

\* C21: while a run is in progress no step removes an item from the queue or
\* changes the order of its items: a removal asked for during the run leaves
\* the queue as it is.
C21_NoRemovalDuringRun ==
    [][ActiveRuns # {} =>
          /\ Len(files') >= Len(files)
          /\ \A k \in DOMAIN files : files'[k].id = files[k].id]_vars

\* the queue without its k-th item
Without(fs, k) == [n \in 1..(Len(fs) - 1) |-> IF n < k THEN fs[n] ELSE fs[n + 1]]

C23_RetryOnlyByReinvocation ==
    /\ [](\A r \in RunIds :
            /\ runs[r].calls <= Cardinality(Pending(runs[r].files))
            /\ runs[r].end = "loop" => runs[r].calls = Cardinality(Pending(runs[r].files)))
    /\ [][\A r \in RunIds :
            (runs[r].pc \notin {"idle", "done"} /\ runs'[r].pc # "done") =>
                /\ runs'[r].i >= runs[r].i
                /\ runs'[r].calls > runs[r].calls =>
                      (runs'[r].i > runs[r].i \/ runs[r].pc = "delay")]_vars
    /\ [][\A r \in RunIds :
            (/\ runs[r].pc \notin {"idle", "done"}
             /\ runs[r].i \in DOMAIN runs[r].files
             /\ runs[r].files[runs[r].i].status = "ERROR"
             /\ runs'[r].completed = runs[r].completed + 1) =>
                \A k \in DOMAIN files' :
                    files'[k].id = runs[r].files[runs[r].i].id =>
                        files'[k].status = "COMPLETED" /\ files'[k].progress = 100]_vars

\* C24: throttle.  Within one run a complete 3000 ms delay lies between the end
\* of an analysis call and the start of the next one, whether the earlier call
\* succeeded or failed: a call that is not the run's first starts only in the
\* step in which the timer fires, the step that ends a call starts no call, the
\* run has waited 3000 ms for each of its calls but the first, and while a
\* run waits no analysis call is in flight.
C24_DelayBetweenCalls ==
    /\ [](\A r \in RunIds :
            /\ runs[r].calls >= 1 => runs[r].waited >= THROTTLE_MS * (runs[r].calls - 1)
            /\ runs[r].pc = "delay" => \A q \in RunIds : runs[q].pc # "analyze")
    /\ [][\A r \in RunIds :
            /\ (runs[r].pc \notin {"idle", "done"} /\ runs[r].calls >= 1
                    /\ runs'[r].calls = runs[r].calls + 1) =>
                  /\ runs[r].pc = "delay"
                  /\ runs'[r].waited = runs[r].waited + THROTTLE_MS
            /\ (runs[r].pc = "analyze" /\ runs'[r].pc # "analyze") =>
                  runs'[r].calls = runs[r].calls]_vars

\* C24 witness: the second call of a run is in flight, after the first call
\* failed and one delay elapsed.
C24_Witness ==
    \E r \in RunIds :
        /\ runs[r].pc = "analyze"
        /\ runs[r].calls = 2
        /\ runs[r].msgs = 1
        /\ runs[r].waited = THROTTLE_MS

PairedProgress(f) ==
    \/ f.status = "READY" /\ f.progress = 0
    \/ f.status = "READING" /\ f.progress = 10
    \/ f.status = "PARSING" /\ f.progress \in {30, 80}
    \/ f.status = "COMPLETED" /\ f.progress = 100
    \/ f.status = "ERROR" /\ f.progress = 0
WasInQueue(id, st, pr) ==
    \E k \in DOMAIN files :
        files[k].id = id /\ files[k].status \in st /\ files[k].progress \in pr

\* C25: status and progress.  In every reachable state each item's status and
\* progress are paired READY 0, READING 10, PARSING 30 or 80, COMPLETED 100,
\* ERROR 0, and only COMPLETED items carry a result; an item gets progress 80
\* only in the step in which an analysis call returns successfully, before the
\* document is read and the record inserted; an item becomes COMPLETED only in
\* the step in which the candidate insert succeeded (no job update being
\* made) or the job update succeeded.
C25_StatusProgressPairing ==
    /\ [](\A k \in DOMAIN files :
            /\ PairedProgress(files[k])
            /\ files[k].result # NoData => files[k].status = "COMPLETED")
    /\ [][\A k \in DOMAIN files' :
            /\ (files'[k].progress = 80 /\ ~WasInQueue(files'[k].id, {"READY", "READING", "PARSING", "COMPLETED", "ERROR"}, {80})) =>
                  \E r \in RunIds : runs[r].pc = "analyze" /\ runs'[r].pc = "read"
            /\ (files'[k].status = "COMPLETED"
                    /\ ~WasInQueue(files'[k].id, {"COMPLETED"}, 0..100)) =>
                  \E r \in RunIds :
                      /\ runs'[r].completed = runs[r].completed + 1
                      /\ \/ /\ runs[r].pc = "insertCand"
                            /\ Len(dbCandidates') = Len(dbCandidates) + 1
                         \/ /\ runs[r].pc = "refetch"
                            /\ runs[r].candIns >= 1
                         \/ /\ runs[r].pc = "updateJob"
                            /\ runs[r].candIns >= 1
                            /\ runs'[r].jobUpd = runs[r].jobUpd + 1]_vars

\* C26: the job context is resolved once per run.  Every analysis call of a run
\* is given the title, skills and description of the job the run resolved
\* before its first call (the stored job selected at the click, the job of the
\* uploaded description), whatever the user selects and whatever happens to
\* the store while the run is in progress; the resolved job of a run never
\* changes identity once a call was made.
C26_ContextFixedPerRun ==
    /\ [](\A r \in RunIds :
            runs[r].calls >= 1 =>
                runs[r].given =
                    IF runs[r].ctx = "parsed" THEN TempJdId
                    ELSE IF runs[r].ctx = "store" THEN runs[r].sel
                    ELSE runs[r].job.id)
    /\ [][\A r \in RunIds :
            (runs[r].calls >= 1 /\ runs[r].pc \notin {"idle", "done"}) =>
                /\ runs'[r].given = runs[r].given
                /\ runs'[r].job.id = runs[r].job.id]_vars

\* C26 witness: the second call of a run over a stored job is in flight after
\* the user selected another job and that stored job was deleted.
C26_Witness ==
    \E r \in RunIds :
        /\ runs[r].pc = "analyze"
        /\ runs[r].calls = 2
        /\ runs[r].ctx = "store"
        /\ selectedJobId # runs[r].sel
        /\ runs[r].sel \notin StoredJobs
        /\ runs[r].given = runs[r].sel

BatchEnds == {"fatal", "notfound", "extract", "insertJob"}
Invoked(r) == runs[r].pc = "idle" /\ runs'[r].pc # "idle"
ItemFailed(r) ==
    /\ runs[r].pc \notin {"idle", "done"}
    /\ runs[r].calls >= 1
    /\ runs'[r].msgs = runs[r].msgs + 1

NoticeSetByRun ==
    \A r \in RunIds :
        /\ Invoked(r) => errorMsg' = NoMsg
        /\ ItemFailed(r) => errorMsg' = Msg("item", runs[r].files[runs[r].i].id)
        /\ (runs[r].pc \notin {"idle", "done"} /\ runs'[r].pc = "done"
                /\ runs'[r].end \in BatchEnds) =>
              /\ errorMsg' # NoMsg /\ errorMsg'.kind # "item"
              /\ runs'[r].msgs = 1
              /\ runs'[r].calls = 0
ItemNoticeChanges == errorMsg # NoMsg /\ errorMsg.kind = "item" /\ errorMsg' # errorMsg
Dismissed ==
    /\ errorMsg' = NoMsg
    /\ events' # events
    /\ UNCHANGED <<runs, files, isParsingJd, parsedJd, jobSource, selectedJobId>>
JdUploadStep ==
    /\ isParsingJd' # isParsingJd
    /\ errorMsg' \in {NoMsg, Msg("jdparse", 0)}
    /\ UNCHANGED <<runs, files>>

\* C27 as stated: an invocation of startAnalysis clears the notice; the step in
\* which an item fails sets the notice to that item's message; a notice holding
\* an item's message changes only when the user dismisses it, when
\* startAnalysis is invoked again or when a later item fails, never by an
\* item's success; and a run that ended on a batch-level error set the notice
\* once, in its last step, and made no analysis call.
C27_NoticeHoldsLastFailure ==
    /\ [][NoticeSetByRun]_vars
    /\ [][ItemNoticeChanges =>
            \/ Dismissed
            \/ \E r \in RunIds : Invoked(r)
            \/ \E r \in RunIds : ItemFailed(r)]_vars

\* C27 amended: as above, and a notice holding an item's message also changes
\* when the user uploads a job description: handleJdUpload clears the notice
\* when it starts and replaces it by its own message when the parsing fails.
C27_NoticeHoldsUntilUserActs ==
    /\ [][NoticeSetByRun]_vars
    /\ [][ItemNoticeChanges =>
            \/ Dismissed
            \/ JdUploadStep
            \/ \E r \in RunIds : Invoked(r)
            \/ \E r \in RunIds : ItemFailed(r)]_vars

\* C27 witness: a run over two items has ended, the first item failed, the
\* second was completed after it, and the notice still holds the first item's
\* message.
C27_Witness ==
    /\ Len(files) = 2 /\ files[1].id = 1 /\ files[2].id = 2
    /\ files[1].status = "ERROR"
    /\ files[2].status = "COMPLETED"
    /\ errorMsg = Msg("item", 1)
    /\ \E r \in RunIds :
        /\ runs[r].end = "loop"
        /\ runs[r].msgs = 1
        /\ runs[r].completed = 1

\* C29: writes land on their own item.  Whatever the user adds to or removes
\* from the queue while a run is in progress, a step changes the status,
\* progress or result of a queue item only if a run is at that very file (the
\* item it ends or the item it starts in that step); an item that enters the
\* queue enters it READY with progress 0 and no result, and so it stays until
\* a run started after it was added takes it up.
C29_WritesLandOnOwnItem ==
    [][\A k2 \in DOMAIN files' :
        /\ (\A k \in DOMAIN files : files[k].id # files'[k2].id) =>
              /\ files'[k2].status = "READY"
              /\ files'[k2].progress = 0
              /\ files'[k2].result = NoData
        /\ \A k \in DOMAIN files :
              (files[k].id = files'[k2].id /\ files[k] # files'[k2]) =>
                  \E r \in RunIds :
                      \E x \in {runs[r].i, runs'[r].i} \cap DOMAIN runs'[r].files :
                          runs'[r].files[x].id = files[k].id]_vars

MintedRecords == {j \in MintIds : dbJobs[j].present}

\* C30: job records.  A job record enters the store only in the step in which
\* a run in upload mode saves the job it extracted, with both counters 0; a
\* run inserts at most one job record, and none when its job came from the
\* store or its extraction failed; and the one job description the user
\* uploads gives rise to at most one job record, however often startAnalysis
\* is invoked with it.
C30_OneJobPerUploadedJd ==
    /\ [](/\ Cardinality(MintedRecords) <= 1
          /\ \A r \in RunIds :
                /\ runs[r].jobIns <= 1
                /\ runs[r].ctx # "minted" => runs[r].jobIns = 0
                /\ runs[r].end = "extract" => runs[r].jobIns = 0)
    /\ [][\A j \in AllJobIds :
            (~dbJobs[j].present /\ dbJobs'[j].present) =>
                /\ dbJobs'[j].applicantsCount = 0
                /\ dbJobs'[j].matchesCount = 0
                /\ \E r \in RunIds :
                      /\ runs[r].pc = "insertJob"
                      /\ runs[r].ctx = "minted"
                      /\ runs'[r].jobIns = 1
                      /\ runs[r].job.id = j]_vars

WellFormedHistory(history) ==
    \/ history = << >>
    \/ /\ history[1] = "user"
       /\ \A n \in 1..(Len(history) - 1) : history[n] # history[n + 1]

\* C28: chat history.  For every stored message list and every chat context,
\* with or without an attached resume, the history handleSend hands to the
\* chat provider is empty or begins with a user turn and strictly alternates
\* between user and model turns; so is the history it did hand over.
C28_HistoryAlternates ==
    /\ WellFormedHistory(ConversationHistory(messages, context))
    /\ WellFormedHistory(conversationHistory)

\* C28 witness: handleSend was invoked without a resume on a list whose second
\* and third messages were the assistant's: the leading model turn was dropped.
C28_Witness ==
    /\ context = NoContext
    /\ messages = <<"assistant", "assistant", "assistant", "user", "user", "assistant">>
    /\ conversationHistory = <<"user">>

\* C11: size policy.  The record built for a document of S bytes carries what
\* fileToBase64 answered for it if and only if S < 1048576; at 1048576 bytes
\* and above the payload is the empty string; so the payload is a non-empty
\* string exactly for 0 < S < 1048576.
C11_PayloadIffBelowLimit ==
    newCandidate # << >> =>
        LET c == newCandidate[1]
            S == currentFile.size IN
        /\ (c.resumeBase64 = base64Data[1]) <=> (S < 1048576)
        /\ S >= 1048576 => c.resumeBase64 = Text(0)
        /\ (c.resumeBase64.t = "string" /\ c.resumeBase64.len > 0) <=> (0 < S /\ S < 1048576)

\* C11 witness: a record built for a document of exactly 1048576 bytes, with
\* an empty payload although the encoding of the document is not empty.
C11_Witness ==
    /\ newCandidate # << >>
    /\ currentFile.size = 1048576
    /\ base64Data[1].len > 0
    /\ newCandidate[1].resumeBase64 = Text(0)

\* C20: whatever the analysis answered in its score fields, the overall score
\* and every sub-score of the record built from it, and the overall score the
\* high-match decision compares with 80, are numbers within 0..100.
C20_ScoresWithinRange ==
    newCandidate # << >> =>
        LET c == newCandidate[1] IN
        /\ \A v \in {c.matchScore, c.jdMatchScore, c.qualificationMatchScore,
                      c.resumeMatchScore} :
              v.t = "number" /\ v.n \in 0..100
        /\ HighMatch(OverallScore(resumeData).n) => OverallScore(resumeData).n <= 100

====
